---------------------------- MODULE Spec2Model ----------------------------
(***************************************************************************)
(* A model of the unidad1_project ETL pipeline: the Reader protocol, the   *)
(* Transformers (row dropping, text normalisation, imputation, row         *)
(* filtering, column selection), the schema-checking WriterCsv /           *)
(* WriterJson and Orchestrator.run.                                        *)
(*                                                                         *)
(* A chunk (a pandas DataFrame) is a record [cols, rows]: cols is the      *)
(* ordered list of column names and rows the list of rows, each row a      *)
(* list of cells aligned with cols.  The DataFrame index is not modelled:  *)
(* the writers pass index=False / orient="records" and no transformer      *)
(* modelled here reads it.  Numbers are exact fractions: floating-point    *)
(* rounding is not modelled.  Column dtypes are those of a pandas release  *)
(* that has the 'str' dtype selector the transformers use.                 *)
(***************************************************************************)
EXTENDS Integers, Sequences, FiniteSets, TLC

VARIABLES
    writer,       \* the Writer in use: "csv" (WriterCsv) or "json" (WriterJson)
    file,         \* the destination path: whether it exists, and its lines
    written,      \* history: the chunks whose write to the path succeeded
    lastWrite,    \* history: the last Writer.write call, its outcome, the file before
    nwrites,      \* SpecW: number of Writer.write calls made
    pc,           \* Orchestrator.run: "idle", "pull", "transform", "write",
                  \*   "completed" (run returned) or "failed" (run raised)
    transformers, \* Orchestrator._transformers
    nchunk,       \* chunks the reader has yielded in this run
    yielded,      \* the chunk the reader yielded last
    cleaned,      \* the accumulator of reduce(): the chunk being transformed
    ti,           \* transformers already applied to it
    error,        \* the exception run() raised to its caller ("none" if none)
    raised,       \* history: the exception a callee raised, and in which call
    events,       \* history: the calls run() has made, in order
    nok,          \* history: Writer.write calls of this run that returned
    fileOk,       \* history: the file at the start of the run or after its
                  \*   last write that returned
    tin,          \* SpecT: the chunk handed to Transformer.transform
    tcfg,         \* SpecT: the transformer applied to it (CfgNone before the call,
                  \*   CfgRaised when its constructor raised)
    tout,         \* SpecT: what transform returned or raised
    tagain,       \* SpecT: what the same transformer returned for tout's chunk
    logs,         \* the log records emitted so far (what caplog captures)
    input,        \* SpecE: the input CSV file of the run
    chunk_size,   \* SpecE: CSVReaderPandas._chunk_size
    rpos,         \* SpecE: data rows of the input the reader has consumed in this run
    yields,       \* SpecE history: the chunks the reader has yielded in this run
    runs,         \* SpecE: calls of Orchestrator.run made so far
    firstOut      \* SpecE history: the output file when the first run returned

tvars == <<tin, tcfg, tout, tagain>>
rvars == <<input, chunk_size, rpos, yields, runs, firstOut>>
wvars == <<writer, file, written, lastWrite, nwrites>>
ovars == <<pc, transformers, nchunk, yielded, cleaned, ti, error, raised, events, nok, fileOk>>

-----------------------------------------------------------------------------
(* Bounds of the model *)

\* rows per chunk
MaxRows == 2

\* Writer.write calls on one destination path (SpecW)
MaxWrites == 3

\* chunks a Reader yields in one run
MaxChunks == 2

\* rows per chunk a Reader yields (chunk_size)
ReaderRows == 1

\* rows of the chunks given to the imputing transformers
ImputeRows == 4

\* transformers configured in one Orchestrator
MaxTransformers == 2

\* lines the destination file may grow to
MaxFileLines == 3

\* data rows of an input CSV file (SpecE)
MaxInputRows == 3

\* chunk_size of a CSVReaderPandas (SpecE)
MaxChunkSize == 3

-----------------------------------------------------------------------------
(* Cells, rows, chunks *)

\* a cell is missing, a number n/d (d = 1 for the integers a file holds) or text
Null == [kind |-> "null", n |-> 0, d |-> 1, s |-> ""]
Num(i) == [kind |-> "num", n |-> i, d |-> 1, s |-> ""]
Str(x) == [kind |-> "str", n |-> 0, d |-> 1, s |-> x]

IsNull(cell) == cell.kind = "null"

\* the cells a column of the given name may hold: a column is homogeneous,
\* "a" and "c" are numeric, "b" is text; every column may hold missing cells
ColCells(c) ==
    CASE c = "a" -> {Null, Num(1)}
      [] c = "b" -> {Null, Str("x")}
      [] OTHER   -> {Null, Num(2)}

RowsOf(cols) ==
    {r \in [1..Len(cols) -> UNION {ColCells(cols[i]) : i \in 1..Len(cols)}] :
        \A i \in 1..Len(cols) : r[i] \in ColCells(cols[i])}

SeqsUpTo(S, n) == UNION {[1..m -> S] : m \in 0..n}

Chunks(schemas, maxRows) ==
    UNION {{[cols |-> cs, rows |-> rs] : rs \in SeqsUpTo(RowsOf(cs), maxRows)} :
              cs \in schemas}

Range(f) == {f[i] : i \in DOMAIN f}

\* the dtype pandas gives a column: "b" is a text (str) column, every other
\* column is numeric; the dtype belongs to the column, whatever cells are missing
DType(c) == IF c = "b" THEN "str" ELSE "number"

\* the column names chunks are made of
ColumnNames == {"a", "b", "c"}

\* the rows and chunks over given columns when column c draws from cells[c]
RowsOver(cells, cols) ==
    {r \in [1..Len(cols) -> UNION {cells[cols[i]] : i \in 1..Len(cols)}] :
        \A i \in 1..Len(cols) : r[i] \in cells[cols[i]]}

ChunksOver(cells, schemas, maxRows) ==
    UNION {{[cols |-> cs, rows |-> rs] : rs \in SeqsUpTo(RowsOver(cells, cs), maxRows)} :
              cs \in schemas}

-----------------------------------------------------------------------------
(* Transformers *)

Ok(chunk) == [ok |-> TRUE, chunk |-> chunk, err |-> "none"]
Raise(e) == [ok |-> FALSE, chunk |-> [cols |-> <<>>, rows |-> <<>>], err |-> e]

\* no transformer: its constructor raised e
CfgRaised(e) == [op |-> "raised", err |-> e]

\* the same, with the constructor call that raised: its class and arguments
CfgRaisedBy(e, class, args) == [op |-> "raised", err |-> e, class |-> class, args |-> args]

\* DataFrame.count(axis=1) of one row: its non-missing cells
NonNullCount(row) == Cardinality({i \in DOMAIN row : ~IsNull(row[i])})

DropnaAll(data) ==
    [cols |-> data.cols,
     rows |-> SelectSeq(data.rows, LAMBDA r : \E i \in DOMAIN r : ~IsNull(r[i]))]

DropnaFirstOnly(data) ==
    LET bad == {j \in DOMAIN data.rows : \E i \in DOMAIN data.rows[j] : IsNull(data.rows[j][i])}
        first == CHOOSE j \in bad : \A m \in bad : j <= m
    IN  IF bad = {} THEN data
        ELSE [cols |-> data.cols,
              rows |-> [m \in 1..(Len(data.rows) - 1) |->
                          IF m < first THEN data.rows[m] ELSE data.rows[m + 1]]]

\* data.dropna(): how="any", a row goes when any of its cells is missing
DropnaAny(data) ==
    [cols |-> data.cols,
     rows |-> SelectSeq(data.rows, LAMBDA r : \A i \in DOMAIN r : ~IsNull(r[i]))]

DropnaThreshStrict(data, tn, td) ==
    [cols |-> data.cols,
     rows |-> SelectSeq(data.rows,
                 LAMBDA r : NonNullCount(r) * td > tn * Len(data.cols))]

DropnaThreshMissingCount(data, tn, td) ==
    [cols |-> data.cols,
     rows |-> SelectSeq(data.rows,
                 LAMBDA r : (Len(r) - NonNullCount(r)) * td >= tn * Len(data.cols))]

\* data.dropna(thresh=t) with t = tn/td * n_cols: mask = count >= thresh
DropnaThresh(data, tn, td) ==
    [cols |-> data.cols,
     rows |-> SelectSeq(data.rows,
                 LAMBDA r : NonNullCount(r) * td >= tn * Len(data.cols))]

TransformerMissing(data) == Ok(DropnaAny(data))

\* threshold is the fraction tn/td; min_non_null = threshold * n_cols
TransformerMissingThreshold(tn, td, data) == Ok(DropnaThresh(data, tn, td))

ColumnIndex(cols, c) == CHOOSE i \in DOMAIN cols : cols[i] = c

TakeColumnsInputOrder(data, columns) ==
    LET ordered == SelectSeq(data.cols, LAMBDA c : c \in Range(columns))
    IN  [cols |-> ordered,
         rows |-> [j \in DOMAIN data.rows |->
                     [i \in DOMAIN ordered |->
                         data.rows[j][CHOOSE m \in DOMAIN data.cols :
                                          data.cols[m] = ordered[i]]]]]

\* data[columns]: the named columns in the order of the list
TakeColumns(data, columns) ==
    [cols |-> columns,
     rows |-> [j \in DOMAIN data.rows |->
                 [i \in DOMAIN columns |->
                     data.rows[j][ColumnIndex(data.cols, columns[i])]]]]

\* data.drop(columns=drop, errors='ignore')
DropColumns(data, drop) ==
    LET keep == SelectSeq(data.cols, LAMBDA c : c \notin Range(drop))
    IN  TakeColumns(data, keep)

TransformerSelectColumnsStrictDrop(columns, drop, mode, data) ==
    IF mode = "keep"
    THEN IF Range(columns) \ Range(data.cols) # {}
         THEN Raise("ValueError")
         ELSE Ok(TakeColumns(data, columns))
    ELSE IF Range(drop) \ Range(data.cols) # {}
         THEN Raise("ValueError")
         ELSE Ok(DropColumns(data, drop))

TransformerSelectColumns(columns, drop, mode, data) ==
    IF mode = "keep"
    THEN IF Range(columns) \ Range(data.cols) # {}
         THEN Raise("ValueError")
         ELSE Ok(TakeColumns(data, columns))
    ELSE Ok(DropColumns(data, drop))

\* the text values of the model and their characters
Texts == {"", " ", "x", "X", " x", "x ", " X", "X ", " x ", " X ", "y", "xy"}

Chars(txt) ==
    CASE txt = ""    -> <<>>
      [] txt = " "   -> <<" ">>
      [] txt = "x"   -> <<"x">>
      [] txt = "X"   -> <<"X">>
      [] txt = " x"  -> <<" ", "x">>
      [] txt = "x "  -> <<"x", " ">>
      [] txt = " X"  -> <<" ", "X">>
      [] txt = "X "  -> <<"X", " ">>
      [] txt = " x " -> <<" ", "x", " ">>
      [] txt = " X " -> <<" ", "X", " ">>
      [] txt = "y"   -> <<"y">>
      [] txt = "xy"  -> <<"x", "y">>

Text(cs) == CHOOSE txt \in Texts : Chars(txt) = cs

IsSpace(ch) == ch = " "

RECURSIVE Lstrip(_)
Lstrip(cs) == IF cs # <<>> /\ IsSpace(Head(cs)) THEN Lstrip(Tail(cs)) ELSE cs

RECURSIVE Rstrip(_)
Rstrip(cs) ==
    IF cs # <<>> /\ IsSpace(cs[Len(cs)]) THEN Rstrip(SubSeq(cs, 1, Len(cs) - 1)) ELSE cs

StrLstrip(cs) == Lstrip(cs)

\* str.strip(): leading and trailing whitespace removed
StrStrip(cs) == Rstrip(Lstrip(cs))

LowerChar(ch) == IF ch = "X" THEN "x" ELSE ch

\* str.lower()
StrLower(cs) == [i \in DOMAIN cs |-> LowerChar(cs[i])]

\* data.select_dtypes(include='str').columns: the positions of the text columns
StringColumns(data) == {i \in DOMAIN data.cols : DType(data.cols[i]) = "str"}

\* Series.str.strip().str.lower() on one cell: a missing cell stays missing
StripLowerCell(cell) ==
    IF cell.kind = "str" THEN Str(Text(StrLower(StrStrip(Chars(cell.s))))) ELSE cell

\* the frame handed in is assigned to column by column and returned; tin keeps
\* the cells it held when transform was called
TransformerNormalizeStrings(data) ==
    IF StringColumns(data) = {}
    THEN Ok(data)
    ELSE Ok([cols |-> data.cols,
             rows |-> [j \in DOMAIN data.rows |->
                         [i \in DOMAIN data.cols |->
                             IF i \in StringColumns(data)
                             THEN StripLowerCell(data.rows[j][i])
                             ELSE data.rows[j][i]]]])

-----------------------------------------------------------------------------
(* Imputation: column statistics and fillna *)

RECURSIVE GCD(_, _)
GCD(x, y) == IF y = 0 THEN x ELSE GCD(y, x % y)

\* the number n/d in lowest terms
Frac(n, d) ==
    LET g == GCD(n, d)
    IN  [kind |-> "num", n |-> n \div g, d |-> d \div g, s |-> ""]

NumAdd(x, y) == Frac(x.n * y.d + y.n * x.d, x.d * y.d)

NumLess(x, y) == x.n * y.d < y.n * x.d

\* code point order of the characters of the model
CharRank(ch) ==
    CASE ch = " " -> 32
      [] ch = "X" -> 88
      [] ch = "x" -> 120
      [] ch = "y" -> 121

RECURSIVE LexLess(_, _)
LexLess(u, v) ==
    IF v = <<>> THEN FALSE
    ELSE IF u = <<>> THEN TRUE
    ELSE IF Head(u) = Head(v) THEN LexLess(Tail(u), Tail(v))
    ELSE CharRank(Head(u)) < CharRank(Head(v))

\* the order of the values of one column
CellLess(x, y) ==
    IF x.kind = "num" THEN NumLess(x, y) ELSE LexLess(Chars(x.s), Chars(y.s))

\* the non-missing cells of column i, in row order
ColumnValues(data, i) ==
    SelectSeq([j \in DOMAIN data.rows |-> data.rows[j][i]], LAMBDA cell : ~IsNull(cell))

RECURSIVE SumCells(_)
SumCells(vals) == IF vals = <<>> THEN Num(0) ELSE NumAdd(Head(vals), SumCells(Tail(vals)))

MeanOverRows(vals, nrows) ==
    LET t == SumCells(vals) IN Frac(t.n, t.d * nrows)

\* Series.mean(): NaN is skipped
Mean(vals, nrows) ==
    LET t == SumCells(vals) IN Frac(t.n, t.d * Len(vals))

RECURSIVE InsertSorted(_, _)
InsertSorted(v, sorted) ==
    IF sorted = <<>> THEN <<v>>
    ELSE IF CellLess(v, Head(sorted)) THEN <<v>> \o sorted
    ELSE <<Head(sorted)>> \o InsertSorted(v, Tail(sorted))

RECURSIVE SortCells(_)
SortCells(vals) ==
    IF vals = <<>> THEN <<>> ELSE InsertSorted(Head(vals), SortCells(Tail(vals)))

\* Series.median(): the middle value, or the mean of the two middle values
Median(vals) ==
    LET sorted == SortCells(vals)
        n == Len(vals)
    IN  IF n % 2 = 1 THEN sorted[(n + 1) \div 2]
        ELSE LET t == NumAdd(sorted[n \div 2], sorted[n \div 2 + 1])
             IN  Frac(t.n, t.d * 2)

Occurrences(vals, v) == Cardinality({m \in DOMAIN vals : vals[m] = v})

\* DataFrame.mode().iloc[0] for one column: of its most frequent values, the
\* smallest
Mode(vals) ==
    LET top == {v \in Range(vals) :
                   \A w \in Range(vals) : Occurrences(vals, w) <= Occurrences(vals, v)}
    IN  CHOOSE v \in top : \A w \in top : w = v \/ CellLess(v, w)

\* select_dtypes(include='number') / select_dtypes(include=['object', 'string'])
NumericColumns(data) == {i \in DOMAIN data.cols : DType(data.cols[i]) = "number"}

\* data[cols].isnull().sum().sum()
MissingBefore(data, columns) ==
    Cardinality({<<j, i>> \in (DOMAIN data.rows) \X columns : IsNull(data.rows[j][i])})

\* the columns for which a statistic exists: those with a non-missing cell
WithValues(data, columns) == {i \in columns : ColumnValues(data, i) # <<>>}

\* data.fillna(series): the missing cells of the columns the series has a value
\* for are replaced by it, every other cell is kept
FillnaSeries(data, fill) ==
    [cols |-> data.cols,
     rows |-> [j \in DOMAIN data.rows |->
                 [i \in DOMAIN data.cols |->
                     IF i \in DOMAIN fill /\ IsNull(data.rows[j][i])
                     THEN fill[i]
                     ELSE data.rows[j][i]]]]

\* data.fillna(data.mode().iloc[0]): the mode of every column, text columns
\* included; mode() has no row when no column has a value
FillnaMode(data) ==
    LET has == WithValues(data, DOMAIN data.cols)
    IN  IF has = {}
        THEN Raise("IndexError")
        ELSE Ok(FillnaSeries(data, [i \in has |-> Mode(ColumnValues(data, i))]))

\* __init__ stores whatever strategy it is given: an unknown one is logged only
TransformerImputeMissingsNumericInit(strategy) ==
    [ok |-> TRUE,
     obj |-> [op |-> "ImputeNumeric", strategy |-> strategy],
     err |-> "none",
     log |-> IF strategy \in {"mean", "median", "mode"} THEN "debug" ELSE "error"]

TransformerImputeMissingsNumeric(strategy, data) ==
    LET numeric_cols == NumericColumns(data)
        has == WithValues(data, numeric_cols)
    IN  IF MissingBefore(data, numeric_cols) = 0
        THEN Ok(data)
        ELSE CASE strategy = "mean" ->
                    Ok(FillnaSeries(data,
                         [i \in has |-> Mean(ColumnValues(data, i), Len(data.rows))]))
               [] strategy = "median" ->
                    Ok(FillnaSeries(data, [i \in has |-> Median(ColumnValues(data, i))]))
               [] strategy = "mode" -> FillnaMode(data)
               [] OTHER -> Raise("ValueError")

\* __init__ stores strategy and default_value (Null stands for None): an unknown
\* strategy is logged as an error, 'default' without a value as a warning
TransformerImputeMissingsStringInit(strategy, default_value) ==
    [ok |-> TRUE,
     obj |-> [op |-> "ImputeString", strategy |-> strategy, default_value |-> default_value],
     err |-> "none",
     log |-> IF strategy \notin {"mode", "default"} THEN "error"
             ELSE IF strategy = "default" /\ default_value = Null THEN "warning"
             ELSE "debug"]

\* data.fillna(value) with a scalar: every missing cell of every column
FillnaValue(data, value) ==
    FillnaSeries(data, [i \in DOMAIN data.cols |-> value])

TransformerImputeMissingsString(strategy, default_value, data) ==
    LET string_cols == StringColumns(data)
    IN  IF MissingBefore(data, string_cols) = 0
        THEN Ok(data)
        ELSE CASE strategy = "mode" -> FillnaMode(data)
               [] strategy = "default" ->
                    IF default_value = Null
                    THEN Raise("ValueError")
                    ELSE Ok(FillnaValue(data, default_value))
               [] OTHER -> Raise("ValueError")

-----------------------------------------------------------------------------
(* TransformerFilterRows with column, operator and value (no custom condition) *)

\* a None argument
None == "None"

ValidOperators == {"==", "!=", ">", "<", ">=", "<=", "in", "not_in", "contains"}

\* __init__: an operator is required (no condition is given), with a column,
\* and it must be one of the valid operators
TransformerFilterRowsInit(column, operator, value) ==
    IF operator = None \/ column = None \/ operator \notin ValidOperators
    THEN [ok |-> FALSE, obj |-> CfgRaised("ValueError"), err |-> "ValueError"]
    ELSE [ok |-> TRUE,
          obj |-> [op |-> "FilterRows", column |-> column, operator |-> operator,
                   value |-> value],
          err |-> "none"]

\* re.search of a pattern without special characters: pat occurs in cs
IsSubstring(pat, cs) ==
    \E m \in 0..(Len(cs) - Len(pat)) : SubSeq(cs, m + 1, m + Len(pat)) = pat

\* one element of the boolean mask; a comparison with NaN is False, except !=
FilterMask(operator, value, cell) ==
    CASE operator = "==" -> ~IsNull(cell) /\ cell = value
      [] operator = "!=" -> IsNull(cell) \/ cell # value
      [] operator = ">"  -> ~IsNull(cell) /\ CellLess(value, cell)
      [] operator = "<"  -> ~IsNull(cell) /\ CellLess(cell, value)
      [] operator = ">=" -> ~IsNull(cell) /\ ~CellLess(cell, value)
      [] operator = "<=" -> ~IsNull(cell) /\ ~CellLess(value, cell)
      [] operator = "in" -> cell \in value
      [] operator = "not_in" -> cell \notin value
      [] operator = "contains" ->
            ~IsNull(cell) /\ IsSubstring(Chars(value.s), Chars(cell.s))

FilterRowsMissingColumnIgnored(data) == Ok(data)

\* the configured column is not in data.columns
FilterRowsMissingColumn(data) == Raise("ValueError")

\* data[mask], then the log line that divides by the number of input rows
TransformerFilterRows(column, operator, value, data) ==
    IF column \notin Range(data.cols)
    THEN FilterRowsMissingColumn(data)
    ELSE LET at == ColumnIndex(data.cols, column)
             result == [cols |-> data.cols,
                        rows |-> SelectSeq(data.rows,
                                    LAMBDA r : FilterMask(operator, value, r[at]))]
         IN  IF Len(data.rows) = 0
             THEN Raise("ZeroDivisionError")
             ELSE Ok(result)

-----------------------------------------------------------------------------
(* TransformerGroupByAggregate *)

\* a raise with the message that tells the two column checks apart
RaiseWith(e, msg) ==
    [ok |-> FALSE, chunk |-> [cols |-> <<>>, rows |-> <<>>], err |-> e, msg |-> msg]

\* __init__ stores its arguments; aggregations is the dict as a list of items
\* [col, funcs, list], list telling a list of functions from a single name;
\* a function name outside the valid ones is logged as a warning only
TransformerGroupByAggregateInit(group_by, aggregations, reset_index) ==
    [ok |-> TRUE,
     obj |-> [op |-> "GroupByAggregate", group_by |-> group_by,
              aggregations |-> aggregations, reset_index |-> reset_index],
     err |-> "none"]

\* the key of row j: its cells in the group-by columns
KeyOf(data, group_by, j) ==
    [m \in DOMAIN group_by |-> data.rows[j][ColumnIndex(data.cols, group_by[m])]]

\* groupby(..., dropna=True): a row whose key has a missing cell is in no group
GroupedRows(data, group_by) ==
    {j \in DOMAIN data.rows :
        \A m \in DOMAIN group_by : ~IsNull(KeyOf(data, group_by, j)[m])}

RECURSIVE KeyLess(_, _)
KeyLess(k1, k2) ==
    IF k1 = <<>> THEN FALSE
    ELSE IF Head(k1) = Head(k2) THEN KeyLess(Tail(k1), Tail(k2))
    ELSE CellLess(Head(k1), Head(k2))

RECURSIVE SortKeys(_)
\* groupby(..., sort=True): the group keys in ascending order
SortKeys(keys) ==
    IF keys = {} THEN <<>>
    ELSE LET least == CHOOSE k \in keys : \A o \in keys \ {k} : KeyLess(k, o)
         IN  <<least>> \o SortKeys(keys \ {least})

\* the non-missing cells of column col in the rows of the group of key, in row order
GroupValues(data, group_by, key, col) ==
    LET at == ColumnIndex(data.cols, col)
        members == SelectSeq([j \in DOMAIN data.rows |-> j],
                       LAMBDA j : j \in GroupedRows(data, group_by)
                                  /\ KeyOf(data, group_by, j) = key)
    IN  SelectSeq([m \in DOMAIN members |-> data.rows[members[m]][at]],
                  LAMBDA cell : ~IsNull(cell))

\* one aggregation function on the values of one group
Aggregate(func, vals) ==
    CASE func = "sum" -> SumCells(vals)
      [] func = "count" -> Num(Len(vals))
      [] func = "first" -> IF vals = <<>> THEN Null ELSE Head(vals)
      [] func = "mean" -> IF vals = <<>> THEN Null ELSE Mean(vals, Len(vals))

\* the (column, function) pairs of the aggregations, in dict and list order
RECURSIVE AggPairs(_)
AggPairs(aggregations) ==
    IF aggregations = <<>> THEN <<>>
    ELSE LET item == Head(aggregations)
         IN  [m \in DOMAIN item.funcs |-> <<item.col, item.funcs[m]>>]
                 \o AggPairs(Tail(aggregations))

\* a list of functions makes the result's columns a MultiIndex, which is
\* flattened to '<column>_<function>'; key columns keep their name
AggColumnName(aggregations, pair) ==
    IF \E m \in DOMAIN aggregations : aggregations[m].list
    THEN pair[1] \o "_" \o pair[2]
    ELSE pair[1]

\* data.groupby(group_by).agg(aggregations), then reset_index(): one row per
\* group, the key columns first unless they stay in the index
GroupByAgg(data, group_by, aggregations, reset_index) ==
    LET keys == SortKeys({KeyOf(data, group_by, j) : j \in GroupedRows(data, group_by)})
        pairs == AggPairs(aggregations)
        names == [m \in DOMAIN pairs |-> AggColumnName(aggregations, pairs[m])]
        values(key) == [m \in DOMAIN pairs |->
                          Aggregate(pairs[m][2],
                                    GroupValues(data, group_by, key, pairs[m][1]))]
    IN  [cols |-> IF reset_index THEN group_by \o names ELSE names,
         rows |-> [g \in DOMAIN keys |->
                     IF reset_index THEN keys[g] \o values(keys[g]) ELSE values(keys[g])]]

AggColumnsFirst(group_by, aggregations, data) ==
    IF {aggregations[m].col : m \in DOMAIN aggregations} \ Range(data.cols) # {}
    THEN RaiseWith("ValueError", "Aggregation columns not found")
    ELSE IF Range(group_by) \ Range(data.cols) # {}
    THEN RaiseWith("ValueError", "Group-by columns not found")
    ELSE Ok(data)

\* the two validations of transform, group-by columns first
ValidateGroupByColumns(group_by, aggregations, data) ==
    IF Range(group_by) \ Range(data.cols) # {}
    THEN RaiseWith("ValueError", "Group-by columns not found")
    ELSE IF {aggregations[m].col : m \in DOMAIN aggregations} \ Range(data.cols) # {}
    THEN RaiseWith("ValueError", "Aggregation columns not found")
    ELSE Ok(data)

TransformerGroupByAggregate(group_by, aggregations, reset_index, data) ==
    LET valid == ValidateGroupByColumns(group_by, aggregations, data)
    IN  IF ~valid.ok THEN valid
        ELSE Ok(GroupByAgg(data, group_by, aggregations, reset_index))

-----------------------------------------------------------------------------
(* Transformer configurations: what the constructor stored *)

CfgMissing ==
    [op |-> "Missing", tn |-> 0, td |-> 1, columns |-> <<>>, drop |-> <<>>]
CfgMissingThreshold(tn, td) ==
    [op |-> "MissingThreshold", tn |-> tn, td |-> td, columns |-> <<>>, drop |-> <<>>]
CfgSelect(columns) ==
    [op |-> "SelectKeep", tn |-> 0, td |-> 1, columns |-> columns, drop |-> <<>>]
CfgDrop(drop) ==
    [op |-> "SelectDrop", tn |-> 0, td |-> 1, columns |-> <<>>, drop |-> drop]

CfgNormalizeStrings ==
    [op |-> "NormalizeStrings", tn |-> 0, td |-> 1, columns |-> <<>>, drop |-> <<>>]

CfgNone ==
    [op |-> "none", tn |-> 0, td |-> 1, columns |-> <<>>, drop |-> <<>>]

TransformerMissingThresholdInitOpen(tn, td) ==
    IF tn > 0 /\ tn < td
    THEN [ok |-> TRUE, obj |-> CfgMissingThreshold(tn, td), err |-> "none"]
    ELSE [ok |-> FALSE, obj |-> CfgNone, err |-> "ValueError"]

\* __init__ of TransformerMissingThreshold with threshold tn/td (td > 0):
\* raises ValueError unless 0.0 <= threshold <= 1.0
TransformerMissingThresholdInit(tn, td) ==
    IF 0 <= tn /\ tn <= td
    THEN [ok |-> TRUE, obj |-> CfgMissingThreshold(tn, td), err |-> "none"]
    ELSE [ok |-> FALSE, obj |-> CfgNone, err |-> "ValueError"]

\* an optional list argument: {} for None, {l} for the list l
TheList(opt) == CHOOSE l \in opt : TRUE

\* __init__: exactly one of columns and drop must be given
TransformerSelectColumnsInit(columns, drop) ==
    IF (columns # {} /\ drop # {}) \/ (columns = {} /\ drop = {})
    THEN [ok |-> FALSE, obj |-> CfgRaised("ValueError"), err |-> "ValueError"]
    ELSE [ok |-> TRUE,
          obj |-> IF columns # {} THEN CfgSelect(TheList(columns)) ELSE CfgDrop(TheList(drop)),
          err |-> "none"]

\* transformer.transform(data), dispatched on the transformer's class
Transform(t, data) ==
    CASE t.op = "Missing" -> TransformerMissing(data)
      [] t.op = "MissingThreshold" -> TransformerMissingThreshold(t.tn, t.td, data)
      [] t.op = "SelectKeep" -> TransformerSelectColumns(t.columns, t.drop, "keep", data)
      [] t.op = "SelectDrop" -> TransformerSelectColumns(t.columns, t.drop, "drop", data)
      [] t.op = "NormalizeStrings" -> TransformerNormalizeStrings(data)
      [] t.op = "ImputeNumeric" -> TransformerImputeMissingsNumeric(t.strategy, data)
      [] t.op = "GroupByAggregate" ->
            TransformerGroupByAggregate(t.group_by, t.aggregations, t.reset_index, data)
      [] t.op = "FilterRows" ->
            TransformerFilterRows(t.column, t.operator, t.value, data)
      [] t.op = "ImputeString" ->
            TransformerImputeMissingsString(t.strategy, t.default_value, data)

-----------------------------------------------------------------------------
(* The destination file and the two writers *)

AbsentFile == [exists |-> FALSE, lines |-> <<>>]

\* the text csv.writer gives one cell: a missing cell is the empty field, and
\* the only field of a one-column row is quoted so that the line is not blank
CsvField(cell, ncols) ==
    CASE cell.kind = "null" -> IF ncols = 1 THEN "\"\"" ELSE ""
      [] cell.kind = "num"  -> ToString(cell.n)
      [] OTHER              -> cell.s

CsvRowLine(row) == [i \in DOMAIN row |-> CsvField(row[i], Len(row))]

\* data_frame.to_csv(file_path, mode="a", index=False, header=header): the
\* header line, when asked for, then one line per row; creates the file
ToCsv(f, df, header) ==
    [exists |-> TRUE,
     lines  |-> f.lines \o (IF header THEN <<df.cols>> ELSE <<>>)
                       \o [j \in DOMAIN df.rows |-> CsvRowLine(df.rows[j])]]

\* list(pd.read_csv(file_path, nrows=0).columns): the fields of the first line
ReadCsvColumns(f) == f.lines[1]

ColumnsMatchUnordered(existing, cols) == Range(existing) = Range(cols)

\* list(existing_df.columns) != list(df.columns) raises: a list comparison
ColumnsMatch(existing, cols) == existing = cols

WriteResult(f, e) == [file |-> f, err |-> e]

WriterCsvWriteAlwaysHeader(f, df) ==
    IF f.exists /\ ~ColumnsMatch(ReadCsvColumns(f), df.cols)
    THEN WriteResult(f, "ValueError")
    ELSE WriteResult(ToCsv(f, df, TRUE), "none")

\* WriterCsv.write: validate against the existing header, then append; the
\* header is written only when the file did not exist
WriterCsvWrite(f, df) ==
    IF f.exists /\ f.lines = <<>>
    THEN WriteResult(f, "EmptyDataError")
    ELSE IF f.exists /\ ~ColumnsMatch(ReadCsvColumns(f), df.cols)
    THEN WriteResult(f, "ValueError")
    ELSE WriteResult(ToCsv(f, df, ~f.exists), "none")

\* json.dump of one value
JsonDumpValue(cell) ==
    CASE cell.kind = "null" -> [t |-> "null", txt |-> "NaN"]
      [] cell.kind = "num"  -> [t |-> "number", txt |-> ToString(cell.n)]
      [] OTHER              -> [t |-> "string", txt |-> cell.s]

\* json.dump(record) for one record of data_frame.to_dict(orient="records"):
\* the line's members, key then value, in column order
JsonDumpRecord(cols, row) ==
    [i \in DOMAIN cols |-> <<cols[i], JsonDumpValue(row[i])>>]

\* list(json.loads(first_line).keys())
JsonLineKeys(line) == [i \in DOMAIN line |-> line[i][1]]

AppendJsonLinesTruncating(f, df) ==
    [exists |-> TRUE,
     lines  |-> [j \in DOMAIN df.rows |-> JsonDumpRecord(df.cols, df.rows[j])]]

\* file_path.open("a") and one dumped record plus "\n" per row
AppendJsonLines(f, df) ==
    [exists |-> TRUE,
     lines  |-> f.lines \o
                [j \in DOMAIN df.rows |-> JsonDumpRecord(df.cols, df.rows[j])]]

\* WriterJson._validate_columns: TRUE when it returns, FALSE when it raises;
\* it returns without comparing when the file has no first line
WriterJsonValidate(f, df) ==
    IF ~f.exists THEN TRUE
    ELSE IF f.lines = <<>> THEN TRUE
    ELSE ColumnsMatch(JsonLineKeys(f.lines[1]), df.cols)

\* WriterJson.write
WriterJsonWrite(f, df) ==
    IF f.exists /\ ~WriterJsonValidate(f, df)
    THEN WriteResult(f, "ValueError")
    ELSE WriteResult(AppendJsonLines(f, df), "none")

\* self._writer.write(chunk, path), dispatched on the writer's class
WriterWrite(w, f, df) ==
    IF w = "csv" THEN WriterCsvWrite(f, df) ELSE WriterJsonWrite(f, df)

-----------------------------------------------------------------------------
(* SpecW: a sequence of Writer.write calls on one destination path that   *)
(* does not exist before the first call                                   *)

WSchemas == {<<"a", "b">>, <<"b", "a">>, <<"a">>}

NoWrite ==
    [called |-> FALSE, df |-> [cols |-> <<>>, rows |-> <<>>], err |-> "none",
     before |-> AbsentFile]

InitW ==
    /\ writer \in {"csv", "json"}
    /\ file = AbsentFile
    /\ written = <<>>
    /\ lastWrite = NoWrite
    /\ nwrites = 0

LogRecord(name, level, msg) == [name |-> name, level |-> level, msg |-> msg]

\* the records write() logs at INFO or above: which of the two cases it is in,
\* or the column mismatch; nothing when reading the header back raised
WriterLogs(f, e) ==
    IF e = "ValueError" THEN <<LogRecord("writers", "ERROR", "Column mismatch")>>
    ELSE IF e # "none" THEN <<>>
    ELSE IF f.exists THEN <<LogRecord("writers", "INFO", "Appending rows to existing file")>>
    ELSE <<LogRecord("writers", "INFO", "Creating new file and writing rows")>>

\* one call writer.write(df, path) and what it leaves behind
DoWrite(df) ==
    LET res == WriterWrite(writer, file, df) IN
    /\ file' = res.file
    /\ logs' = logs \o WriterLogs(file, res.err)
    /\ written' = IF res.err = "none" THEN Append(written, df) ELSE written
    /\ lastWrite' = [called |-> TRUE, df |-> df, err |-> res.err, before |-> file]

WriteCsvCall ==
    /\ writer = "csv"
    /\ nwrites < MaxWrites
    /\ \E df \in Chunks(WSchemas, MaxRows) :
          /\ Len(file.lines) + Len(df.rows) <= MaxFileLines
          /\ DoWrite(df)
    /\ nwrites' = nwrites + 1
    /\ UNCHANGED <<writer, ovars, tvars, rvars>>

WriteJsonCall ==
    /\ writer = "json"
    /\ nwrites < MaxWrites
    /\ \E df \in Chunks(WSchemas, MaxRows) :
          /\ Len(file.lines) + Len(df.rows) <= MaxFileLines
          /\ DoWrite(df)
    /\ nwrites' = nwrites + 1
    /\ UNCHANGED <<writer, ovars, tvars, rvars>>

NextW == WriteCsvCall \/ WriteJsonCall

-----------------------------------------------------------------------------
(* Orchestrator.run, from the "Updated upstream" side of orchestrator.py,  *)
(* the side that reads the self._transformers the constructor sets         *)

EmptyChunk == [cols |-> <<>>, rows |-> <<>>]

NoError == [err |-> "none", call |-> "none"]

Event(call, chunkNo, i) == [call |-> call, k |-> chunkNo, i |-> i]

\* the chunks a Reader may yield
RSchemas == {<<"a", "b">>, <<"b">>}

\* what a Reader may raise when asked for its n-th chunk: the path is looked
\* up before the first chunk only, a parse may fail at any chunk
ReaderErrors(n) == IF n = 1 THEN {"FileNotFoundError", "ParserError"} ELSE {"ParserError"}

\* the transformers an Orchestrator may be configured with
OTransformers == {CfgMissing, CfgSelect(<<"a">>)}

NextTransformerReversed(ts, i) == ts[Len(ts) - i]

\* reduce(lambda data, transformer: ..., self._transformers, chunk) takes the
\* transformers in list order: after i of them comes the (i+1)-th
NextTransformer(ts, i) == ts[i + 1]

AfterCallSwallow(err, next) == next

\* run() has no try/except: a call that raises ends the run, a call that
\* returns lets it go on
AfterCall(err, next) == IF err = "none" THEN next ELSE "failed"

\* the exception leaves run() as the callee raised it
Propagate(e) == e

AfterYieldSkipTransform(ts) == "write"

AfterYieldSkipAll(ts) == "pull"

\* after a chunk is bound, reduce() calls the transformers, if there are any
AfterYield(ts) == IF ts = <<>> THEN "write" ELSE "transform"

\* the records a transform() logs at INFO or above, by the transformer's class:
\* its summary line when it returns, the logged exception when it raises
TransformerLogs(t, res) ==
    <<LogRecord("transformers", IF res.ok THEN "INFO" ELSE "ERROR", t.op)>>

\* no run of the end-to-end pipeline
IdleE ==
    /\ input = AbsentFile
    /\ chunk_size = 0
    /\ rpos = 0
    /\ yields = <<>>
    /\ runs = 0
    /\ firstOut = AbsentFile

InitO ==
    /\ pc = "idle"
    /\ transformers = <<>>
    /\ nchunk = 0
    /\ yielded = EmptyChunk
    /\ cleaned = EmptyChunk
    /\ ti = 0
    /\ error = "none"
    /\ raised = NoError
    /\ events = <<>>
    /\ nok = 0
    /\ fileOk = AbsentFile

\* Orchestrator(reader, transformers, writer).run(input, output) is called
Start ==
    /\ pc = "idle"
    /\ transformers' \in SeqsUpTo(OTransformers, MaxTransformers)
    /\ pc' = "pull"
    /\ fileOk' = file
    /\ UNCHANGED <<nchunk, yielded, cleaned, ti, error, raised, events, nok, wvars, tvars, rvars, logs>>

\* the reader yields the next chunk
PullYield ==
    /\ pc = "pull"
    /\ nchunk < MaxChunks
    /\ \E c \in Chunks(RSchemas, ReaderRows) :
          /\ Len(file.lines) + Len(c.rows) <= MaxFileLines
          /\ yielded' = c
          /\ cleaned' = c
    /\ nchunk' = nchunk + 1
    /\ ti' = 0
    /\ events' = Append(events, Event("pull", nchunk + 1, 0))
    /\ pc' = AfterYield(transformers)
    /\ UNCHANGED <<transformers, error, raised, nok, fileOk, wvars, tvars, rvars, logs>>

\* the reader is exhausted: the for loop ends and run() returns
PullStop ==
    /\ pc = "pull"
    /\ events' = Append(events, Event("pull", nchunk + 1, 0))
    /\ pc' = "completed"
    /\ UNCHANGED <<transformers, nchunk, yielded, cleaned, ti, error, raised, nok, fileOk, wvars, tvars, rvars, logs>>

\* the reader raises instead of yielding
PullRaise ==
    /\ pc = "pull"
    /\ \E e \in ReaderErrors(nchunk + 1) :
          /\ raised' = [err |-> e, call |-> "pull"]
          /\ error' = Propagate(e)
          /\ pc' = AfterCall(e, "pull")
    /\ events' = Append(events, Event("pull", nchunk + 1, 0))
    /\ UNCHANGED <<transformers, nchunk, yielded, cleaned, ti, nok, fileOk, wvars, tvars, rvars, logs>>

\* one step of reduce(): the next transformer's transform(data)
TransformStep ==
    /\ pc = "transform"
    /\ LET res == Transform(NextTransformer(transformers, ti), cleaned) IN
          /\ cleaned' = IF res.ok THEN res.chunk ELSE cleaned
          /\ raised' = IF res.ok THEN raised ELSE [err |-> res.err, call |-> "transform"]
          /\ error' = IF res.ok THEN error ELSE Propagate(res.err)
          /\ pc' = AfterCall(res.err,
                       IF ti + 1 < Len(transformers) THEN "transform" ELSE "write")
          /\ logs' = logs \o TransformerLogs(NextTransformer(transformers, ti), res)
    /\ ti' = ti + 1
    /\ events' = Append(events, Event("transform", nchunk, ti + 1))
    /\ UNCHANGED <<transformers, nchunk, yielded, nok, fileOk, wvars, tvars, rvars>>

\* self._writer.write(cleaned_chunk, output_file_path)
WriteStep ==
    /\ pc = "write"
    /\ LET res == WriterWrite(writer, file, cleaned) IN
          /\ DoWrite(cleaned)
          /\ raised' = IF res.err = "none" THEN raised
                        ELSE [err |-> res.err, call |-> "write"]
          /\ error' = IF res.err = "none" THEN error ELSE Propagate(res.err)
          /\ nok' = IF res.err = "none" THEN nok + 1 ELSE nok
          /\ fileOk' = IF res.err = "none" THEN res.file ELSE fileOk
          /\ pc' = AfterCall(res.err, "pull")
    /\ events' = Append(events, Event("write", nchunk, 0))
    /\ UNCHANGED <<transformers, nchunk, yielded, cleaned, ti, writer, nwrites, tvars, rvars>>


-----------------------------------------------------------------------------
(* SpecT: one transformer applied to one chunk *)

TSchemas == {<<"a">>, <<"a", "b">>, <<"a", "b", "c">>}

\* thresholds accepted by the constructor, as fractions tn/td in [0, 1]
Thresholds == {<<0, 1>>, <<1, 3>>, <<1, 2>>, <<2, 3>>, <<1, 1>>}

\* thresholds outside [0, 1]: 1.5 as in the test, just above 1, 2 and negatives
InvalidThresholds == {<<3, 2>>, <<4, 3>>, <<2, 1>>, <<-1, 2>>, <<-1, 1>>}

NoResult == [ok |-> FALSE, chunk |-> [cols |-> <<>>, rows |-> <<>>], err |-> "pending"]

IdleW ==
    /\ writer = "csv"
    /\ file = AbsentFile
    /\ written = <<>>
    /\ lastWrite = NoWrite
    /\ nwrites = 0

\* the cells of the chunks given to the text transformers: text with
\* surrounding whitespace and upper case
NormCells(c) ==
    IF DType(c) = "str" THEN {Null, Str("x"), Str(" X "), Str(" ")} ELSE {Null, Num(1)}

NormChunks == ChunksOver([c \in ColumnNames |-> NormCells(c)], {<<"a", "b">>, <<"b">>}, MaxRows)

\* the cells of the chunks given to the imputing transformers
ImputeNumericCells(c) ==
    IF DType(c) = "str" THEN {Null, Str("x")} ELSE {Null, Num(1), Num(2)}

ImputeStringCells(c) ==
    IF DType(c) = "str" THEN {Null, Str("x"), Str("y")} ELSE {Null, Num(1)}

ImputeChunks ==
    ChunksOver([c \in ColumnNames |-> ImputeNumericCells(c)], {<<"a", "b">>}, ImputeRows)
        \cup ChunksOver([c \in ColumnNames |-> ImputeStringCells(c)], {<<"a", "b">>}, ImputeRows)

\* strategies a caller may pass, "invalid" standing for any unknown name
NumericStrategies == {"mean", "median", "mode", "invalid"}
StringStrategies == {"mode", "default", "invalid"}

\* default_value arguments: None or a text
DefaultValues == {Null, Str("y")}

\* the cells of the chunks given to TransformerFilterRows
FilterCells(c) ==
    IF DType(c) = "str" THEN {Null, Str("x"), Str("xy")}
    ELSE {Null, Num(1), Num(2), Num(3)}

FilterChunks == ChunksOver([c \in ColumnNames |-> FilterCells(c)], {<<"a", "b">>}, MaxRows)

\* column, operator and value arguments: comparisons of a numeric column with
\* 2 or the list [1, 3], of a text column with "x", "y" or the list ["x"], of
\* an absent column "z", and the arguments __init__ rejects
FilterArgs ==
    {<<"a", o, Num(2)>> : o \in {"==", "!=", ">", "<", ">=", "<="}}
        \cup {<<"a", o, {Num(1), Num(3)}>> : o \in {"in", "not_in"}}
        \cup {<<"b", o, Str("x")>> : o \in {"==", "!=", "contains"}}
        \cup {<<"b", o, {Str("x")}>> : o \in {"in", "not_in"}}
        \cup {<<"b", "contains", Str("y")>>, <<"z", ">", Num(2)>>,
               <<"z", "in", {Num(1), Num(3)}>>}
        \cup {<<"a", "invalid", Num(2)>>, <<"a", None, Num(2)>>, <<None, ">", Num(2)>>}

\* columns / drop arguments: lists of present and absent ("z") names, in and out
\* of the chunk's order, and None
SelectLists ==
    {<<"a">>, <<"b">>, <<"b", "a">>, <<"c", "a">>, <<"a", "z">>, <<"z">>, <<>>}

SelectArgs ==
    {<<{l}, {}>> : l \in SelectLists} \cup {<<{}, {l}>> : l \in SelectLists}
        \cup {<<{}, {}>>, <<{<<"a">>}, {<<"b">>}>>}

\* the cells of the chunks given to the grouping transformer: two values and
\* the missing cell in each key column
GroupCells(c) ==
    IF DType(c) = "str" THEN {Null, Str("x"), Str("y")}
    ELSE IF c = "a" THEN {Null, Num(1), Num(2)} ELSE {Null, Num(1)}

GroupChunks == ChunksOver([c \in ColumnNames |-> GroupCells(c)], {<<"a", "b", "c">>}, MaxRows)

\* one item of an aggregations dict
AggItem(col, funcs, list) == [col |-> col, funcs |-> funcs, list |-> list]

\* group_by, aggregations and reset_index arguments: text and numeric keys,
\* one and two key columns, single functions and a list of functions, and
\* absent group-by ("z") and aggregation ("y") columns
GroupByArgs ==
    {<<<<"b">>, <<AggItem("a", <<f>>, FALSE)>>, r>> :
        f \in {"sum", "count", "first", "mean"}, r \in BOOLEAN}
        \cup {<<<<"a">>, <<AggItem("b", <<"count">>, FALSE)>>, TRUE>>,
               <<<<"a", "b">>, <<AggItem("c", <<"sum">>, FALSE)>>, TRUE>>,
               <<<<"b">>, <<AggItem("a", <<"sum", "count">>, TRUE)>>, TRUE>>,
               <<<<"b">>, <<AggItem("a", <<"sum">>, FALSE), AggItem("c", <<"first">>, FALSE)>>, TRUE>>,
               <<<<"z">>, <<AggItem("a", <<"sum">>, FALSE)>>, TRUE>>,
               <<<<"b">>, <<AggItem("y", <<"sum">>, FALSE)>>, TRUE>>,
               <<<<"z">>, <<AggItem("y", <<"sum">>, FALSE)>>, TRUE>>}

TInputs == Chunks(TSchemas, MaxRows) \cup NormChunks \cup ImputeChunks \cup FilterChunks
               \cup GroupChunks

InitT ==
    /\ IdleW
    /\ InitO
    /\ tin \in TInputs
    /\ tcfg = CfgNone
    /\ tout = NoResult
    /\ tagain = NoResult
    /\ logs = <<>>
    /\ IdleE

ApplyMissing ==
    /\ tcfg = CfgNone
    /\ tcfg' = CfgMissing
    /\ tout' = Transform(CfgMissing, tin)
    /\ UNCHANGED <<tin, tagain, wvars, ovars, rvars, logs>>

ApplyMissingThreshold ==
    /\ tcfg = CfgNone
    /\ \E t \in Thresholds \cup InvalidThresholds :
          LET made == TransformerMissingThresholdInit(t[1], t[2])
          IN  /\ tcfg' = IF made.ok THEN made.obj
                         ELSE CfgRaisedBy(made.err, "TransformerMissingThreshold", t)
              /\ tout' = IF made.ok THEN Transform(made.obj, tin) ELSE NoResult
    /\ UNCHANGED <<tin, tagain, wvars, ovars, rvars, logs>>

ApplyNormalizeStrings ==
    /\ tcfg = CfgNone
    /\ tcfg' = CfgNormalizeStrings
    /\ tout' = Transform(CfgNormalizeStrings, tin)
    /\ UNCHANGED <<tin, tagain, wvars, ovars, rvars, logs>>

\* TransformerImputeMissingsNumeric(strategy).transform(data)
ApplyImputeNumeric ==
    /\ tcfg = CfgNone
    /\ \E strategy \in NumericStrategies :
          LET made == TransformerImputeMissingsNumericInit(strategy)
          IN  /\ tcfg' = IF made.ok THEN made.obj ELSE CfgRaised(made.err)
              /\ tout' = IF made.ok THEN Transform(made.obj, tin) ELSE NoResult
    /\ UNCHANGED <<tin, tagain, wvars, ovars, rvars, logs>>

\* TransformerImputeMissingsString(strategy, default_value).transform(data)
ApplyImputeString ==
    /\ tcfg = CfgNone
    /\ \E strategy \in StringStrategies, default_value \in DefaultValues :
          LET made == TransformerImputeMissingsStringInit(strategy, default_value)
          IN  /\ tcfg' = IF made.ok THEN made.obj ELSE CfgRaised(made.err)
              /\ tout' = IF made.ok THEN Transform(made.obj, tin) ELSE NoResult
    /\ UNCHANGED <<tin, tagain, wvars, ovars, rvars, logs>>

\* TransformerFilterRows(column, operator, value).transform(data), on the
\* chunks of up to MaxRows rows
ApplyFilterRows ==
    /\ tcfg = CfgNone
    /\ Len(tin.rows) <= MaxRows
    /\ \E args \in FilterArgs :
          LET made == TransformerFilterRowsInit(args[1], args[2], args[3])
          IN  /\ tcfg' = made.obj
              /\ tout' = IF made.ok THEN Transform(made.obj, tin) ELSE NoResult
    /\ UNCHANGED <<tin, tagain, wvars, ovars, rvars, logs>>

\* TransformerSelectColumns(columns=..., drop=...).transform(data), on the
\* chunks of up to MaxRows rows
ApplySelectColumns ==
    /\ tcfg = CfgNone
    /\ Len(tin.rows) <= MaxRows
    /\ \E args \in SelectArgs :
          LET made == TransformerSelectColumnsInit(args[1], args[2])
          IN  /\ tcfg' = made.obj
              /\ tout' = IF made.ok THEN Transform(made.obj, tin) ELSE NoResult
    /\ UNCHANGED <<tin, tagain, wvars, ovars, rvars, logs>>

\* TransformerGroupByAggregate(group_by, aggregations, reset_index).transform(data)
ApplyGroupByAggregate ==
    /\ tcfg = CfgNone
    /\ \E args \in GroupByArgs :
          LET made == TransformerGroupByAggregateInit(args[1], args[2], args[3])
          IN  /\ tcfg' = made.obj
              /\ tout' = Transform(made.obj, tin)
    /\ UNCHANGED <<tin, tagain, wvars, ovars, rvars, logs>>

\* transformer.transform(transformer.transform(data)): the chunk the first call
\* returned goes through the same transformer once more
ApplyAgain ==
    /\ tcfg # CfgNone
    /\ tout.ok
    /\ tagain = NoResult
    /\ tagain' = Transform(tcfg, tout.chunk)
    /\ UNCHANGED <<tin, tcfg, tout, wvars, ovars, rvars, logs>>

NextT ==
    \/ ApplyMissing
    \/ ApplyMissingThreshold
    \/ ApplyNormalizeStrings
    \/ ApplyImputeNumeric
    \/ ApplyImputeString
    \/ ApplyFilterRows
    \/ ApplySelectColumns
    \/ ApplyGroupByAggregate
    \/ ApplyAgain

vars == <<wvars, ovars, tvars, rvars, logs>>

SpecT == InitT /\ [][NextT]_vars

IdleT ==
    /\ tin = [cols |-> <<>>, rows |-> <<>>]
    /\ tcfg = CfgNone
    /\ tout = NoResult
    /\ tagain = NoResult

\* a writer, a destination that does not exist yet, an Orchestrator not yet run
Init == InitW /\ InitO /\ IdleT /\ IdleE /\ logs = <<>>

SpecW == Init /\ [][NextW]_vars

Next == Start \/ PullYield \/ PullStop \/ PullRaise \/ TransformStep \/ WriteStep

Spec == Init /\ [][Next]_vars

\* run() is one synchronous call: the interpreter always takes its next step
FairSpec == Spec /\ WF_vars(Next)

-----------------------------------------------------------------------------
(* CSVReaderPandas, and SpecE: Orchestrator.run with a CSVReaderPandas on *)
(* an input file, a chain of transformers and a WriterCsv, called once or *)
(* twice with the same paths; the output path does not exist at first     *)

\* __init__: chunk_size must be positive
CSVReaderPandasInit(size) ==
    IF size <= 0 THEN [ok |-> FALSE, err |-> "ValueError"]
    ELSE [ok |-> TRUE, err |-> "none"]

Min(x, y) == IF x <= y THEN x ELSE y

\* the cell pandas parses from one field: the empty field is a missing cell,
\* digits are a number, anything else is text, kept as it is
ParseField(text) ==
    IF text = "" THEN Null
    ELSE IF \E n \in 0..9 : ToString(n) = text
    THEN Num(CHOOSE n \in 0..9 : ToString(n) = text)
    ELSE Str(text)

ParseLine(line) == [i \in DOMAIN line |-> ParseField(line[i])]

\* the data rows of a file with a header line
DataRows(f) == Len(f.lines) - 1

\* _detect_delimiter: ValueError on an empty sample; csv.Sniffer finds ',' in a
\* sample with two or more columns and no delimiter in a one-column sample with
\* data lines, which is a ValueError too
DetectDelimiter(f) ==
    IF f.lines = <<>> THEN [ok |-> FALSE, delimiter |-> "", err |-> "ValueError"]
    ELSE IF Len(f.lines[1]) = 1 THEN [ok |-> FALSE, delimiter |-> "", err |-> "ValueError"]
    ELSE [ok |-> TRUE, delimiter |-> ",", err |-> "none"]

\* what read() raises before it yields anything: the path does not exist, or
\* the delimiter cannot be detected; "none" when reading starts
ReaderOpenError(f) ==
    IF ~f.exists THEN "FileNotFoundError"
    ELSE IF ~DetectDelimiter(f).ok THEN DetectDelimiter(f).err
    ELSE "none"

\* the records read() logs at INFO or above before it raises e
ReaderLogs(e) ==
    IF e = "ValueError" THEN <<LogRecord("readers", "ERROR", "Format error")>> ELSE <<>>

HasNextRowsOnly(f, pos, n) == pos < DataRows(f)

\* for chunk in reader_obj: pandas has another chunk while data rows are left;
\* a file with a header and no data row gives one chunk without rows
HasNext(f, pos, n) == pos < DataRows(f) \/ n = 0

NextChunkOneMore(f, size, pos) ==
    [cols |-> f.lines[1],
     rows |-> [j \in 1..Min(size + 1, DataRows(f) - pos) |-> ParseLine(f.lines[1 + pos + j])]]

\* the chunk read_csv(chunksize=size) yields after pos data rows: the next
\* size rows, or those that are left, under the header's columns
NextChunk(f, size, pos) ==
    [cols |-> f.lines[1],
     rows |-> [j \in 1..Min(size, DataRows(f) - pos) |-> ParseLine(f.lines[1 + pos + j])]]

\* the fields of the input files: a numeric column "a", a text column "b"
InputFields(c) == IF DType(c) = "str" THEN {"", " X "} ELSE {"", "1"}

\* the lines of a file with columns cols; the only field of a one-column line
\* is not empty (pandas skips blank lines)
InputLines(cols) ==
    {line \in [DOMAIN cols -> {"", " X ", "1"}] :
        /\ \A i \in DOMAIN cols : line[i] \in InputFields(cols[i])
        /\ Len(cols) = 1 => line[1] # ""}

ESchemas == {<<"a", "b">>, <<"b">>}

\* the input paths: no file, an empty file, and files with a header line and
\* up to MaxInputRows data lines (a one-column file has a data line: from a
\* lone one-column header the Sniffer takes a letter as the delimiter)
InputFiles ==
    {AbsentFile, [exists |-> TRUE, lines |-> <<>>]}
        \cup UNION {{[exists |-> TRUE, lines |-> <<cols>> \o rows] :
                        rows \in {r \in SeqsUpTo(InputLines(cols), MaxInputRows) :
                                     Len(cols) = 1 => r # <<>>}} :
                     cols \in ESchemas}

\* the chains of transformers of the runs, all schema-preserving: none,
\* TransformerMissing and TransformerNormalizeStrings alone and in this order,
\* and TransformerMissing before TransformerFilterRows('a', '==', 1)
EChains ==
    {<<>>, <<CfgMissing>>, <<CfgNormalizeStrings>>, <<CfgMissing, CfgNormalizeStrings>>,
     <<CfgMissing, TransformerFilterRowsInit("a", "==", Num(1)).obj>>}

InitE ==
    /\ IdleW
    /\ InitO
    /\ IdleT
    /\ logs = <<>>
    /\ input \in InputFiles
    /\ chunk_size \in {size \in 0..MaxChunkSize : CSVReaderPandasInit(size).ok}
    /\ rpos = 0
    /\ yields = <<>>
    /\ runs = 0
    /\ firstOut = AbsentFile

\* Orchestrator(CSVReaderPandas(chunk_size), chain, WriterCsv()).run(input, output)
StartE ==
    /\ pc = "idle"
    /\ runs = 0
    /\ transformers' \in EChains
    /\ runs' = 1
    /\ pc' = "pull"
    /\ fileOk' = file
    /\ UNCHANGED <<nchunk, yielded, cleaned, ti, error, raised, events, nok, wvars, tvars,
                   input, chunk_size, rpos, yields, firstOut, logs>>

\* read() raises before its first chunk
ReadRaise ==
    /\ pc = "pull"
    /\ nchunk = 0
    /\ ReaderOpenError(input) # "none"
    /\ raised' = [err |-> ReaderOpenError(input), call |-> "pull"]
    /\ error' = Propagate(ReaderOpenError(input))
    /\ pc' = AfterCall(ReaderOpenError(input), "pull")
    /\ logs' = logs \o ReaderLogs(ReaderOpenError(input))
    /\ events' = Append(events, Event("pull", nchunk + 1, 0))
    /\ UNCHANGED <<transformers, nchunk, yielded, cleaned, ti, nok, fileOk, wvars, tvars,
                   rvars>>

\* read() yields the next chunk of the input
ReadYield ==
    /\ pc = "pull"
    /\ ReaderOpenError(input) = "none"
    /\ HasNext(input, rpos, nchunk)
    /\ LET c == NextChunk(input, chunk_size, rpos) IN
          /\ yielded' = c
          /\ cleaned' = c
          /\ yields' = Append(yields, c)
          /\ rpos' = rpos + Len(c.rows)
    /\ nchunk' = nchunk + 1
    /\ ti' = 0
    /\ events' = Append(events, Event("pull", nchunk + 1, 0))
    /\ pc' = AfterYield(transformers)
    /\ UNCHANGED <<transformers, error, raised, nok, fileOk, wvars, tvars,
                   input, chunk_size, runs, firstOut, logs>>

\* the input is exhausted: the for loop ends and run() returns
ReadStop ==
    /\ pc = "pull"
    /\ ReaderOpenError(input) = "none"
    /\ ~HasNext(input, rpos, nchunk)
    /\ events' = Append(events, Event("pull", nchunk + 1, 0))
    /\ pc' = "completed"
    /\ UNCHANGED <<transformers, nchunk, yielded, cleaned, ti, error, raised, nok, fileOk,
                   wvars, tvars, rvars, logs>>

\* the same Orchestrator's run(input, output) is called a second time, after
\* the first call returned
RunAgain ==
    /\ pc = "completed"
    /\ runs = 1
    /\ runs' = 2
    /\ firstOut' = file
    /\ pc' = "pull"
    /\ nchunk' = 0
    /\ rpos' = 0
    /\ yields' = <<>>
    /\ yielded' = EmptyChunk
    /\ cleaned' = EmptyChunk
    /\ ti' = 0
    /\ events' = <<>>
    /\ nok' = 0
    /\ fileOk' = file
    /\ UNCHANGED <<transformers, error, raised, wvars, tvars, input, chunk_size, logs>>

NextE ==
    \/ StartE
    \/ ReadYield
    \/ ReadStop
    \/ ReadRaise
    \/ TransformStep
    \/ WriteStep
    \/ RunAgain

SpecE == InitE /\ [][NextE]_vars

-----------------------------------------------------------------------------
(* Properties of Orchestrator.run *)

RECURSIVE ApplyAll(_, _)
\* tn(...t2(t1(c))...): the composition of the transformers of ts, first to
\* last, on chunk c; the first error, if one of them raises
ApplyAll(ts, c) ==
    IF ts = <<>> THEN Ok(c)
    ELSE LET r == Transform(Head(ts), c)
         IN  IF r.ok THEN ApplyAll(Tail(ts), r.chunk) ELSE r

Reverse(ts) == [i \in DOMAIN ts |-> ts[Len(ts) + 1 - i]]

LastCall == IF events = <<>> THEN "none" ELSE events[Len(events)].call

\* how often run() called transformer number i on chunk number c
TransformCalls(c, i) ==
    Cardinality({p \in DOMAIN events :
        events[p].call = "transform" /\ events[p].k = c /\ events[p].i = i})

\* C1: what run() passes to Writer.write for a yielded chunk c is exactly
\* tn(...t2(t1(c))...): the configured transformers applied in list order, each
\* once per chunk; with an empty list the chunk is written unchanged.
C1_FoldInOrder ==
    LastCall = "write" =>
        /\ lastWrite.called
        /\ Ok(lastWrite.df) = ApplyAll(transformers, yielded)
        /\ \A i \in 1..MaxTransformers :
              TransformCalls(nchunk, i) = IF i <= Len(transformers) THEN 1 ELSE 0
        /\ transformers = <<>> => lastWrite.df = yielded

\* a chunk went through two transformers whose order matters and was written
C1_Witness ==
    /\ LastCall = "write"
    /\ Len(transformers) = 2
    /\ ApplyAll(Reverse(transformers), yielded).ok
    /\ ApplyAll(Reverse(transformers), yielded) # ApplyAll(transformers, yielded)
    /\ lastWrite.err = "none"

\* C2: when a reader pull, a transform or a write raises while run() processes
\* a chunk, that same error reaches the caller of run(), the raising call is the
\* last call run() makes, and the destination holds exactly what the writes of
\* the earlier chunks, all of which returned, left there.
C2_ErrorHalts ==
    raised.err # "none" =>
        /\ pc = "failed"
        /\ error = raised.err
        /\ LastCall = raised.call
        /\ file = fileOk
        /\ nok = IF raised.call = "pull" THEN nchunk ELSE nchunk - 1

\* the write of a second chunk raised after the first chunk had been written
C2_Witness ==
    /\ pc = "failed"
    /\ raised.call = "write"
    /\ nok = 1
    /\ file.lines # <<>>

\* the p-th call of a run over n transformers: chunk by chunk, one pull, the n
\* transforms in order, one write
ExpectedEvent(p, n) ==
    LET c   == ((p - 1) \div (n + 2)) + 1
        off == (p - 1) % (n + 2)
    IN  IF off = 0 THEN Event("pull", c, 0)
        ELSE IF off <= n THEN Event("transform", c, off)
        ELSE Event("write", c, 0)

\* C3: run() processes the chunks one at a time in reader order: chunk N+1 is
\* requested only after every transformer was applied to chunk N and the write
\* of chunk N returned, so the writes happen in the order of the yields.
C3_Sequential ==
    \A p \in DOMAIN events : events[p] = ExpectedEvent(p, Len(transformers))

\* the second chunk was requested after two transforms and the write of the first
C3_Witness ==
    /\ Len(transformers) = 2
    /\ Len(events) >= 5
    /\ events[4] = Event("write", 1, 0)
    /\ events[5] = Event("pull", 2, 0)
    /\ nchunk = 2

Running == pc \in {"pull", "transform", "write"}

Ended == pc \in {"completed", "failed"}

\* C4: over a reader that yields finitely many chunks run() always ends,
\* completed or failed; it ends completed exactly when no pull, transform or
\* write raised, and then Writer.write was called once per yielded chunk.
C4_Terminates ==
    /\ Running ~> Ended
    /\ [](pc = "completed" =>
            /\ raised.err = "none"
            /\ error = "none"
            /\ nok = nchunk
            /\ Cardinality({p \in DOMAIN events : events[p].call = "write"}) = nchunk)
    /\ [](pc = "failed" => raised.err # "none" /\ error # "none")

\* a run over two chunks completed
C4_Witness ==
    /\ pc = "completed"
    /\ nchunk = 2
    /\ nok = 2

-----------------------------------------------------------------------------
(* Properties of the writers *)

RECURSIVE Flatten(_)
\* the concatenation of a sequence of sequences
Flatten(ss) == IF ss = <<>> THEN <<>> ELSE Head(ss) \o Flatten(Tail(ss))

RECURSIVE SumRows(_)
SumRows(chunks) ==
    IF chunks = <<>> THEN 0 ELSE Len(Head(chunks).rows) + SumRows(Tail(chunks))

\* every row of a sequence of chunks, in order, each with its chunk's columns
AllRows(chunks) ==
    Flatten([i \in DOMAIN chunks |->
                [j \in DOMAIN chunks[i].rows |->
                    [cols |-> chunks[i].cols, row |-> chunks[i].rows[j]]]])

\* C5: after any sequence of write calls to a path that did not exist before
\* the first call, every chunk whose write succeeded has the ordered column
\* list of the first chunk written there, whatever the chunks' row counts.
C5_SameSchema ==
    \A i \in DOMAIN written : written[i].cols = written[1].cols

\* the column names a destination file stores: the CSV header, or the keys of
\* the first JSON line
StoredColumns(w, f) ==
    IF w = "csv" THEN f.lines[1] ELSE [i \in DOMAIN f.lines[1] |-> f.lines[1][i][1]]

\* C6: a write to an existing destination whose stored columns differ from the
\* chunk's columns, in the set of names or only in their order, raises
\* ValueError and leaves the file exactly as it was before the call.
C6_SchemaMismatch ==
    (/\ lastWrite.called
     /\ lastWrite.before.exists
     /\ lastWrite.before.lines # <<>>
     /\ StoredColumns(writer, lastWrite.before) # lastWrite.df.cols)
        => (lastWrite.err = "ValueError" /\ file = lastWrite.before)

\* a chunk with the stored names in another order was refused
C6_Witness ==
    /\ lastWrite.called
    /\ lastWrite.before.exists
    /\ lastWrite.before.lines # <<>>
    /\ StoredColumns(writer, lastWrite.before) # lastWrite.df.cols
    /\ Range(StoredColumns(writer, lastWrite.before)) = Range(lastWrite.df.cols)
    /\ lastWrite.err = "ValueError"

\* C7: with WriterCsv, after any sequence of successful writes to a path that
\* did not exist before, the file is one header line, written by the first
\* write only, followed by the rows of all written chunks in write order; the
\* number of data rows is the sum of the chunks' row counts.
C7_CsvFileLayout ==
    (writer = "csv" /\ written # <<>>) =>
        /\ file.exists
        /\ file.lines = <<written[1].cols>> \o
               [p \in DOMAIN AllRows(written) |-> CsvRowLine(AllRows(written)[p].row)]
        /\ Len(file.lines) - 1 = SumRows(written)

\* two chunks with rows were appended to a CSV file
C7_Witness ==
    /\ writer = "csv"
    /\ Len(written) >= 2
    /\ written[1].rows # <<>>
    /\ written[2].rows # <<>>
    /\ written[1].rows # written[2].rows

\* int(txt) for the numbers json.dump writes
ParseNumber(txt) == CHOOSE n \in 0..9 : ToString(n) = txt

\* json.loads of one value
JsonLoadValue(v) ==
    CASE v.t = "null"   -> Null
      [] v.t = "number" -> Num(ParseNumber(v.txt))
      [] OTHER          -> Str(v.txt)

\* json.loads(line): the mapping from the line's keys to its decoded values
JsonLoads(line) ==
    [k \in {line[i][1] : i \in DOMAIN line} |->
        JsonLoadValue(line[CHOOSE i \in DOMAIN line : line[i][1] = k][2])]

\* the record of one row: column name to the row's value
RecordOf(cols, row) == [k \in Range(cols) |-> row[ColumnIndex(cols, k)]]

\* C8: with WriterJson, after any sequence of successful writes, the file holds
\* one line per written row and no header, in write order and in row order
\* within each chunk, and each line decodes to the record mapping the chunk's
\* column names to the row's values.
C8_JsonLines ==
    writer = "json" =>
        /\ Len(file.lines) = SumRows(written)
        /\ \A p \in DOMAIN file.lines :
              JsonLoads(file.lines[p]) =
                  RecordOf(AllRows(written)[p].cols, AllRows(written)[p].row)

\* a two-row chunk and then a one-row chunk were appended to a JSON lines file
C8_Witness ==
    /\ writer = "json"
    /\ Len(written) = 2
    /\ Len(written[1].rows) = 2
    /\ written[1].rows[1] # written[1].rows[2]
    /\ Len(written[2].rows) = 1
    /\ Len(file.lines) = 3

-----------------------------------------------------------------------------
(* Properties of the row-dropping transformers *)

MissingCells(row) == {i \in DOMAIN row : row[i] = Null}

\* the m-th smallest element of a set of row positions
NthOf(S, m) == CHOOSE j \in S : Cardinality({i \in S : i < j}) = m - 1

\* out holds exactly the rows of inp at the positions in kept, in inp's order
IsRowSelection(inp, out, kept) ==
    /\ out.cols = inp.cols
    /\ Len(out.rows) = Cardinality(kept)
    /\ \A m \in 1..Len(out.rows) : out.rows[m] = inp.rows[NthOf(kept, m)]

\* C9: TransformerMissing.transform returns exactly the rows of its input that
\* have no missing cell, in their original order and under the input's columns:
\* a row is removed iff at least one of its cells is missing.
C9_DropIncomplete ==
    tcfg.op = "Missing" =>
        /\ tout.ok
        /\ IsRowSelection(tin, tout.chunk,
               {j \in DOMAIN tin.rows : MissingCells(tin.rows[j]) = {}})

\* a two-row chunk whose first row is partly missing and whose second row is
\* complete went through TransformerMissing, which removed the first row only
C9_Witness ==
    /\ tcfg.op = "Missing"
    /\ Len(tin.cols) >= 2
    /\ Len(tin.rows) = 2
    /\ MissingCells(tin.rows[1]) # {}
    /\ MissingCells(tin.rows[1]) # DOMAIN tin.rows[1]
    /\ MissingCells(tin.rows[2]) = {}
    /\ Len(tout.chunk.rows) = 1

\* C10: TransformerMissingThreshold(threshold).transform keeps a row iff its
\* number of non-missing cells is >= threshold * number of columns (inclusive);
\* kept rows keep their order and columns, and threshold 0 keeps every row,
\* rows of missing cells only included.
C10_DropBelowThreshold ==
    tcfg.op = "MissingThreshold" =>
        /\ tout.ok
        /\ IsRowSelection(tin, tout.chunk,
               {j \in DOMAIN tin.rows :
                   (Len(tin.cols) - Cardinality(MissingCells(tin.rows[j]))) * tcfg.td
                       >= tcfg.tn * Len(tin.cols)})
        /\ tcfg.tn = 0 => tout.chunk = tin

\* a row whose non-missing count equals threshold * columns exactly (1 of 3 at
\* threshold 1/3) is kept while a row below it is dropped
C10_Witness ==
    /\ tcfg.op = "MissingThreshold"
    /\ tcfg.tn = 1 /\ tcfg.td = 3
    /\ Len(tin.cols) = 3
    /\ Len(tin.rows) = 2
    /\ Cardinality(MissingCells(tin.rows[1])) = 3
    /\ Cardinality(MissingCells(tin.rows[2])) = 2
    /\ tout.chunk.rows = <<tin.rows[2]>>

\* C11: for every chunk, TransformerMissingThreshold(1.0).transform returns the
\* same rows and columns as TransformerMissing.transform does on that chunk.
C11_ThresholdOneIsMissing ==
    (tcfg.op = "MissingThreshold" /\ tcfg.tn = tcfg.td) =>
        tout = TransformerMissing(tin)

\* threshold 1.0 met a chunk with a complete row, a partly missing row and at
\* least two columns, and returned the complete row only
C11_Witness ==
    /\ tcfg.op = "MissingThreshold"
    /\ tcfg.tn = 1 /\ tcfg.td = 1
    /\ Len(tin.cols) >= 2
    /\ Len(tin.rows) = 2
    /\ MissingCells(tin.rows[1]) = {}
    /\ MissingCells(tin.rows[2]) # {}
    /\ MissingCells(tin.rows[2]) # DOMAIN tin.rows[2]
    /\ tout.chunk.rows = <<tin.rows[1]>>

\* C12: applying TransformerMissing.transform twice gives the same chunk as
\* applying it once, for every input chunk.
C12_MissingIdempotent ==
    (tcfg.op = "Missing" /\ tagain # NoResult) => tagain = tout

\* the first application removed a row and kept another, and the second
\* application has run on what was kept
C12_Witness ==
    /\ tcfg.op = "Missing"
    /\ tagain # NoResult
    /\ Len(tin.rows) = 2
    /\ Len(tout.chunk.rows) = 1
    /\ tagain.ok

-----------------------------------------------------------------------------
(* Properties of TransformerNormalizeStrings *)

\* the whitespace-trimmed, lower-cased value of each text of the model
Normalized(txt) ==
    CASE txt \in {"", " "} -> ""
      [] txt \in {"x", "X", " x", "x ", " X", "X ", " x ", " X "} -> "x"
      [] txt = "y" -> "y"
      [] txt = "xy" -> "xy"

\* C13: TransformerNormalizeStrings.transform is idempotent and touches only
\* text columns: every text cell becomes its whitespace-trimmed, lower-cased
\* value, every non-text column comes back cell for cell, row count and column
\* order are unchanged, and a chunk without a text column is returned unchanged.
C13_NormalizeStrings ==
    tcfg.op = "NormalizeStrings" =>
        /\ tout.ok
        /\ tout.chunk.cols = tin.cols
        /\ Len(tout.chunk.rows) = Len(tin.rows)
        /\ \A j \in DOMAIN tin.rows : \A i \in DOMAIN tin.cols :
              LET before == tin.rows[j][i]
                  after == tout.chunk.rows[j][i]
              IN  /\ Len(tout.chunk.rows[j]) = Len(tin.cols)
                  /\ (DType(tin.cols[i]) = "str" /\ before.kind = "str") =>
                         after = Str(Normalized(before.s))
                  /\ DType(tin.cols[i]) # "str" => after = before
        /\ (\A i \in DOMAIN tin.cols : DType(tin.cols[i]) # "str") => tout.chunk = tin
        /\ tagain # NoResult => tagain = tout

\* a chunk with a numeric cell and the text " X " went through the transformer
\* twice: the text came back as "x" and the numeric cell as it was
C13_Witness ==
    /\ tcfg.op = "NormalizeStrings"
    /\ tagain # NoResult
    /\ tin.cols = <<"a", "b">>
    /\ Len(tin.rows) >= 1
    /\ tin.rows[1] = <<Num(1), Str(" X ")>>
    /\ tout.chunk.rows[1] = <<Num(1), Str("x")>>

-----------------------------------------------------------------------------
(* Properties of the imputing transformers *)

\* C14: constructing TransformerImputeMissingsNumeric with a strategy outside
\* {mean, median, mode}, or TransformerImputeMissingsString with a strategy
\* outside {mode, default}, raises ValueError at construction, so that no
\* transformer object with an unknown strategy can exist.
C14_UnknownStrategyRejected ==
    /\ tcfg.op = "ImputeNumeric" => tcfg.strategy \in {"mean", "median", "mode"}
    /\ tcfg.op = "ImputeString" => tcfg.strategy \in {"mode", "default"}

\* the rows of data whose cell in column i is not missing
Present(data, i) == {j \in DOMAIN data.rows : data.rows[j][i] # Null}

RECURSIVE SumOver(_, _, _)
\* the sum of the (integer) cells of column i over the rows in js
SumOver(data, i, js) ==
    IF js = {} THEN 0
    ELSE LET j == CHOOSE m \in js : TRUE
         IN  data.rows[j][i].n + SumOver(data, i, js \ {j})

\* the k-th smallest of the (integer) non-missing cells of column i
KthSmallest(data, i, k) ==
    CHOOSE v \in {data.rows[j][i].n : j \in Present(data, i)} :
        /\ Cardinality({j \in Present(data, i) : data.rows[j][i].n < v}) < k
        /\ Cardinality({j \in Present(data, i) : data.rows[j][i].n <= v}) >= k

IsMeanOf(cell, data, i) ==
    /\ cell.kind = "num"
    /\ cell.n * Cardinality(Present(data, i)) = cell.d * SumOver(data, i, Present(data, i))

IsMedianOf(cell, data, i) ==
    LET n == Cardinality(Present(data, i))
    IN  /\ cell.kind = "num"
        /\ IF n % 2 = 1
           THEN cell.n = cell.d * KthSmallest(data, i, (n + 1) \div 2)
           ELSE 2 * cell.n = cell.d * (KthSmallest(data, i, n \div 2)
                                          + KthSmallest(data, i, n \div 2 + 1))

\* cell is a value of column i that no other value of the column outnumbers
IsMostFrequentOf(cell, data, i) ==
    LET times(v) == Cardinality({j \in Present(data, i) : data.rows[j][i] = v})
    IN  /\ times(cell) > 0
        /\ \A j \in Present(data, i) : times(data.rows[j][i]) <= times(cell)

IsStatisticOf(strategy, cell, data, i) ==
    CASE strategy = "mean" -> IsMeanOf(cell, data, i)
      [] strategy = "median" -> IsMedianOf(cell, data, i)
      [] strategy = "mode" -> IsMostFrequentOf(cell, data, i)

\* C15: TransformerImputeMissingsNumeric(strategy).transform with strategy in
\* {mean, median, mode}: in every numeric column that has at least one
\* non-missing cell, each missing cell is replaced by that column's mean /
\* median / most frequent value over the chunk's non-missing cells of the
\* column, non-missing cells keep their value, and afterwards the column has no
\* missing cell.
C15_ImputeNumeric ==
    (tcfg.op = "ImputeNumeric" /\ tcfg.strategy \in {"mean", "median", "mode"}) =>
        \A i \in DOMAIN tin.cols :
            (DType(tin.cols[i]) = "number" /\ Present(tin, i) # {}) =>
                /\ tout.ok
                /\ tout.chunk.cols = tin.cols
                /\ Len(tout.chunk.rows) = Len(tin.rows)
                /\ \A j \in DOMAIN tin.rows :
                      LET before == tin.rows[j][i]
                          after == tout.chunk.rows[j][i]
                      IN  /\ after # Null
                          /\ before # Null => after = before
                          /\ before = Null => IsStatisticOf(tcfg.strategy, after, tin, i)

\* the numeric column 1, 2, 2, missing was imputed with its mean: the missing
\* cell became 5/3 and the other cells are as they were
C15_Witness ==
    /\ tcfg.op = "ImputeNumeric"
    /\ tcfg.strategy = "mean"
    /\ tin.cols = <<"a", "b">>
    /\ Len(tin.rows) = 4
    /\ [j \in 1..4 |-> tin.rows[j][1]] = <<Num(1), Num(2), Num(2), Null>>
    /\ tout.ok
    /\ [j \in 1..4 |-> tout.chunk.rows[j][1]] = <<Num(1), Num(2), Num(2), Frac(5, 3)>>

\* C16: TransformerImputeMissingsString.transform replaces every missing cell of
\* every text column with that column's most frequent value (strategy 'mode')
\* or with the configured default_value (strategy 'default'); non-missing text
\* cells keep their value.  A text column without any value has no most
\* frequent value: nothing is asked of its cells, only that transform returns.
C16_ImputeString ==
    (/\ tcfg.op = "ImputeString"
     /\ tcfg.strategy \in {"mode", "default"}
     /\ tcfg.strategy = "default" => tcfg.default_value # Null) =>
        /\ tout.ok
        /\ tout.chunk.cols = tin.cols
        /\ Len(tout.chunk.rows) = Len(tin.rows)
        /\ \A i \in DOMAIN tin.cols : \A j \in DOMAIN tin.rows :
              LET before == tin.rows[j][i]
                  after == tout.chunk.rows[j][i]
              IN  DType(tin.cols[i]) = "str" =>
                      /\ before # Null => after = before
                      /\ (before = Null /\ tcfg.strategy = "mode" /\ Present(tin, i) # {}) =>
                             IsMostFrequentOf(after, tin, i)
                      /\ (before = Null /\ tcfg.strategy = "default") =>
                             after = tcfg.default_value

-----------------------------------------------------------------------------
(* Properties of TransformerFilterRows *)

\* the texts of the model in which pat occurs
Containing(pat) ==
    CASE pat = "x" -> {"x", " x", "x ", " x ", "xy"}
      [] pat = "y" -> {"y", "xy"}

\* cell satisfies `cell operator value`; a missing cell equals nothing, is in
\* no list and is neither above nor below a value
Satisfies(operator, cell, value) ==
    CASE operator = "==" -> cell = value
      [] operator = "!=" -> cell # value
      [] operator = ">"  -> cell # Null /\ cell.n > value.n
      [] operator = "<"  -> cell # Null /\ cell.n < value.n
      [] operator = ">=" -> cell # Null /\ cell.n >= value.n
      [] operator = "<=" -> cell # Null /\ cell.n <= value.n
      [] operator = "in" -> \E v \in value : cell = v
      [] operator = "not_in" -> \A v \in value : cell # v
      [] operator = "contains" -> cell # Null /\ cell.s \in Containing(value.s)

\* C17: TransformerFilterRows(column, operator, value).transform, for each
\* operator in {==, !=, >, <, >=, <=, in, not_in, contains}, returns exactly
\* the rows whose cell in the configured column satisfies the comparison with
\* value, in their original order and with all input columns kept, also when no
\* row matches (e.g. '>' with 30 on ages 25, 30, 35, 40 yields 35, 40).
C17_FilterRows ==
    (tcfg.op = "FilterRows" /\ tcfg.column \in Range(tin.cols)) =>
        /\ tout.ok
        /\ IsRowSelection(tin, tout.chunk,
               {j \in DOMAIN tin.rows :
                   Satisfies(tcfg.operator,
                             tin.rows[j][ColumnIndex(tin.cols, tcfg.column)],
                             tcfg.value)})

\* C18: TransformerFilterRows.transform configured with column and operator (no
\* custom condition) raises ValueError whenever the configured column is absent
\* from the chunk, and produces no output chunk.
C18_FilterMissingColumn ==
    (tcfg.op = "FilterRows" /\ tcfg.column \notin Range(tin.cols)) =>
        /\ ~tout.ok
        /\ tout.err = "ValueError"
        /\ tout.chunk = EmptyChunk

\* a filter on column "z" was applied to a chunk with rows and without that
\* column, and raised
C18_Witness ==
    /\ tcfg.op = "FilterRows"
    /\ tcfg.column = "z"
    /\ Len(tin.rows) > 0
    /\ "z" \notin Range(tin.cols)
    /\ tout.err = "ValueError"

-----------------------------------------------------------------------------
(* Properties of TransformerSelectColumns *)

\* the position of column c in the chunk
PositionOf(chunk, c) == CHOOSE i \in DOMAIN chunk.cols : chunk.cols[i] = c

\* every cell of out is the cell of inp in the same row and the column of the
\* same name, and out has as many rows as inp
SameCellsByName(inp, out) ==
    /\ Len(out.rows) = Len(inp.rows)
    /\ \A j \in DOMAIN out.rows :
          /\ Len(out.rows[j]) = Len(out.cols)
          /\ \A m \in DOMAIN out.cols :
                out.rows[j][m] = inp.rows[j][PositionOf(inp, out.cols[m])]

\* out's columns are inp's columns without the names in dropped, in inp's order
IsInputMinus(inp, out, dropped) ==
    /\ Range(out.cols) = Range(inp.cols) \ dropped
    /\ Len(out.cols) = Cardinality(Range(out.cols))
    /\ \A p, q \in DOMAIN out.cols :
          p < q => PositionOf(inp, out.cols[p]) < PositionOf(inp, out.cols[q])

\* C19: TransformerSelectColumns.transform in keep mode (columns=L) returns a
\* chunk whose columns are exactly L in L's order; in drop mode (drop=D) it
\* returns the input's columns minus D in the input's order; in both modes the
\* row count and the cell values of the kept columns are unchanged.
C19_SelectColumns ==
    /\ (tcfg.op = "SelectKeep" /\ Range(tcfg.columns) \subseteq Range(tin.cols)) =>
          /\ tout.ok
          /\ tout.chunk.cols = tcfg.columns
          /\ SameCellsByName(tin, tout.chunk)
    /\ tcfg.op = "SelectDrop" =>
          /\ tout.ok
          /\ IsInputMinus(tin, tout.chunk, Range(tcfg.drop))
          /\ SameCellsByName(tin, tout.chunk)

\* keep mode with columns c, a on a chunk a, b, c with a row of values returned
\* the columns c, a in that order
C19_Witness ==
    /\ tcfg.op = "SelectKeep"
    /\ tcfg.columns = <<"c", "a">>
    /\ tin.cols = <<"a", "b", "c">>
    /\ Len(tin.rows) >= 1
    /\ tin.rows[1] = <<Num(1), Str("x"), Num(2)>>
    /\ tout.ok
    /\ tout.chunk.rows[1] = <<Num(2), Num(1)>>

\* C20: TransformerSelectColumns treats absent columns asymmetrically: keep
\* mode with any absent column raises ValueError and yields no chunk, drop mode
\* ignores absent names and succeeds, removing only the named columns that are
\* present.
C20_AbsentColumns ==
    /\ (tcfg.op = "SelectKeep" /\ ~(Range(tcfg.columns) \subseteq Range(tin.cols))) =>
          /\ ~tout.ok
          /\ tout.err = "ValueError"
          /\ tout.chunk = EmptyChunk
    /\ (tcfg.op = "SelectDrop" /\ ~(Range(tcfg.drop) \subseteq Range(tin.cols))) =>
          /\ tout.ok
          /\ IsInputMinus(tin, tout.chunk, Range(tcfg.drop) \cap Range(tin.cols))
          /\ SameCellsByName(tin, tout.chunk)

\* drop mode with a present and an absent name (a, z) on a chunk a, b returned
\* the column b alone
C20_Witness ==
    /\ tcfg.op = "SelectDrop"
    /\ tcfg.drop = <<"a", "z">>
    /\ tin.cols = <<"a", "b">>
    /\ Len(tin.rows) >= 1
    /\ tout.ok
    /\ tout.chunk.cols = <<"b">>

\* the distinct combinations of cells of the group-by columns in the chunk
KeyCombinations(data, group_by) ==
    {KeyOf(data, group_by, j) : j \in DOMAIN data.rows}

\* C21: TransformerGroupByAggregate.transform returns exactly one row per
\* distinct combination of values of the group-by key columns occurring in the
\* input chunk: the output row count equals the number of distinct key
\* combinations in the input.
C21_OneRowPerKey ==
    (tcfg.op = "GroupByAggregate" /\ Range(tcfg.group_by) \subseteq Range(tin.cols)
        /\ tout # NoResult /\ tout.ok) =>
        Len(tout.chunk.rows) = Cardinality(KeyCombinations(tin, tcfg.group_by))

\* the columns of the aggregations dict
AggColumns(aggregations) == {aggregations[m].col : m \in DOMAIN aggregations}

\* C22: TransformerGroupByAggregate.transform raises ValueError when any
\* group-by column or any aggregation column is absent from the input chunk and
\* returns no chunk; the group-by columns are checked before the aggregation
\* columns, so with both absent the error is the one of the group-by columns.
C22_GroupByMissingColumn ==
    (tcfg.op = "GroupByAggregate" /\ tout # NoResult) =>
        LET noGroup == Range(tcfg.group_by) \ Range(tin.cols) # {}
            noAgg == AggColumns(tcfg.aggregations) \ Range(tin.cols) # {}
        IN  /\ (noGroup \/ noAgg) =>
                  /\ ~tout.ok
                  /\ tout.err = "ValueError"
                  /\ tout.chunk = EmptyChunk
            /\ noGroup => (~tout.ok /\ tout.msg = "Group-by columns not found")
            /\ (~noGroup /\ noAgg) =>
                  (~tout.ok /\ tout.msg = "Aggregation columns not found")

\* a transform whose group-by column "z" and aggregation column "y" are both
\* absent from a chunk with rows raised the group-by error
C22_Witness ==
    /\ tcfg.op = "GroupByAggregate"
    /\ tcfg.group_by = <<"z">>
    /\ AggColumns(tcfg.aggregations) = {"y"}
    /\ Len(tin.rows) > 0
    /\ tout # NoResult
    /\ ~tout.ok
    /\ tout.msg = "Group-by columns not found"

\* C23: constructing TransformerMissingThreshold with a threshold outside
\* [0, 1] (e.g. 1.5) raises ValueError and yields no transformer, while every
\* threshold in [0, 1], the bounds 0.0 and 1.0 included, is accepted.
C23_ThresholdRange ==
    \A t \in Thresholds \cup InvalidThresholds :
        LET inRange == 0 <= t[1] /\ t[1] <= t[2]
        IN  /\ tcfg = CfgMissingThreshold(t[1], t[2]) => inRange
            /\ (tcfg.op = "raised" /\ tcfg = CfgRaisedBy(tcfg.err, "TransformerMissingThreshold", t)) =>
                  /\ ~inRange
                  /\ tcfg.err = "ValueError"
                  /\ tout = NoResult

\* the constructor was called with 1.5 and raised, and nothing was transformed
C23_Witness ==
    /\ tcfg = CfgRaisedBy("ValueError", "TransformerMissingThreshold", <<3, 2>>)
    /\ tout = NoResult
    /\ Len(tin.rows) > 0

\* C27: TransformerFilterRows.transform is total on empty input: given a
\* zero-row chunk that has the configured column, it raises no error and
\* returns a zero-row chunk with the same columns.
C27_FilterEmptyChunk ==
    (/\ tcfg.op = "FilterRows"
     /\ tcfg.column \in Range(tin.cols)
     /\ Len(tin.rows) = 0) =>
        /\ tout.ok
        /\ tout.chunk.cols = tin.cols
        /\ tout.chunk.rows = <<>>

\* the cells of the columns of dtype kept are in result what they are in data
ColumnsUnchanged(data, result, kept) ==
    /\ result.cols = data.cols
    /\ Len(result.rows) = Len(data.rows)
    /\ \A i \in DOMAIN data.cols : \A j \in DOMAIN data.rows :
          DType(data.cols[i]) = kept => result.rows[j][i] = data.rows[j][i]

\* C28: TransformerImputeMissingsNumeric.transform leaves every non-numeric
\* column unchanged for each strategy mean, median and mode: whenever it
\* returns, a missing cell of a text column is still missing in the output.
C28_NumericLeavesText ==
    (/\ tcfg.op = "ImputeNumeric"
     /\ tcfg.strategy \in {"mean", "median", "mode"}
     /\ tout.ok) =>
        ColumnsUnchanged(tin, tout.chunk, "str")

\* C29: TransformerImputeMissingsString.transform leaves every numeric column
\* unchanged for each strategy mode and default: whenever it returns, a missing
\* cell of a numeric column is still missing in the output, also when a text
\* column of the chunk has missing cells that get imputed.
C29_StringLeavesNumbers ==
    (/\ tcfg.op = "ImputeString"
     /\ tcfg.strategy \in {"mode", "default"}
     /\ tout.ok) =>
        ColumnsUnchanged(tin, tout.chunk, "number")

-----------------------------------------------------------------------------
(* Properties of the logging of Orchestrator.run *)

\* a record saying that chunk number k was processed has been emitted
ChunkProcessedLogged(k) ==
    \E p \in DOMAIN logs : logs[p].msg = "chunk " \o ToString(k) \o " processed"

\* C25: Orchestrator.run emits a progress log record for each chunk it
\* processes: once a run over a reader that yielded at least two chunks has
\* returned, a record containing 'chunk 1 processed' has been emitted.
C25_ChunkProcessedLogged ==
    (pc = "completed" /\ nchunk >= 2) => ChunkProcessedLogged(1)

-----------------------------------------------------------------------------
(* Properties of CSVReaderPandas.read and of the end-to-end runs *)

CeilDiv(x, y) == (x + y - 1) \div y

RECURSIVE RowsInOrder(_)
\* the rows of the chunks of ys, one chunk after the other
RowsInOrder(ys) == IF ys = <<>> THEN <<>> ELSE Head(ys).rows \o RowsInOrder(Tail(ys))

\* the chunks yielded are the R data rows of the input in file order, cut into
\* ceil(R / size) chunks of size rows, the last one holding the remainder
ChunkedBy(size) ==
    LET R == DataRows(input)
        n == Len(yields)
    IN  /\ n = CeilDiv(R, size)
        /\ Len(RowsInOrder(yields)) = R
        /\ RowsInOrder(yields) = [j \in 1..R |-> ParseLine(input.lines[1 + j])]
        /\ \A k \in 1..(n - 1) : Len(yields[k].rows) = size
        /\ n > 0 => Len(yields[n].rows) = IF R % size = 0 THEN size ELSE R % size
        /\ \A k \in 1..n : yields[k].cols = input.lines[1]

C26_EndToEnd ==
    (/\ pc = "completed"
     /\ runs = 1
     /\ transformers = <<CfgMissing, CfgNormalizeStrings>>) =>
        /\ file.exists
        /\ file.lines # <<>>
        /\ DataRows(file) >= 0
        /\ DataRows(file) <= DataRows(input)
        /\ \A k \in DOMAIN yields :
              /\ ApplyAll(transformers, yields[k]).ok
              /\ file.lines[1] = ApplyAll(transformers, yields[k]).chunk.cols

\* a run over three data rows in chunks of two returned, having dropped a row
\* with a missing cell and written the other two under the header
C26_Witness ==
    /\ pc = "completed"
    /\ runs = 1
    /\ transformers = <<CfgMissing, CfgNormalizeStrings>>
    /\ chunk_size = 2
    /\ DataRows(input) = 3
    /\ file.exists
    /\ file.lines = <<<<"a", "b">>, <<"1", "x">>, <<"1", "x">>>>

IsPrefix(p, q) == Len(p) <= Len(q) /\ \A j \in DOMAIN p : q[j] = p[j]

\* C30: Orchestrator.run is append-only with respect to an existing
\* destination.  Running the same pipeline of a CSV reader, schema-preserving
\* transformers and WriterCsv twice, with the same input (a CSV the reader
\* accepts) and the same output path, completes both times; the second run
\* never truncates or replaces what the first run wrote, and after it the
\* output holds the first run's lines followed by the first run's rows again,
\* under the single header of the first run.
C30_AppendOnly ==
    (ReaderOpenError(input) = "none" /\ runs >= 1) =>
        /\ pc # "failed"
        /\ runs = 2 =>
              /\ firstOut.exists /\ firstOut.lines # <<>>
              /\ file.exists
              /\ IsPrefix(firstOut.lines, file.lines)
              /\ pc = "completed" => file.lines = firstOut.lines \o Tail(firstOut.lines)

====
